---- MODULE Spec2Model ----
(***************************************************************************)
(* Model of backend/main.py: the /api/live handler (feature assembly, the  *)
(* current prediction, the 30-day and hourly forecast loops, the response) *)
(* and load_model, the lazily filled process-wide model cache.             *)
(*                                                                         *)
(* Numbers are fixed point.  Pollutant readings are held in tenths         *)
(* (InScale), predictions in hundredths (OutScale), so that the spec's     *)
(* scenario 146.6 -> 64.66 is exact: 1466 tenths -> 6466 hundredths.       *)
(***************************************************************************)
EXTENDS Integers, Sequences, FiniteSets, TLC

\* ------------------------------------------------------------------ bounds
\* Short upstream `time` arrays have 0..MaxTime entries.
MaxTime == 2
\* Long upstream `time` arrays have HourCap..HourCap+MaxOver entries.
MaxOver == 1
\* The deviating pollutant array has 0..MaxLen entries.
MaxLen == 2
\* At most MaxFails calls of model.predict raise during one request.
MaxFails == 1
\* Each thread calls load_model at most MaxCalls times (SpecLoad).
MaxCalls == 2
\* Threads 1..MaxThreads call load_model concurrently (SpecLoad).
MaxThreads == 2

\* ------------------------------------------------------- program constants
\* range(30)
Days == 30
\* timestamps[:24]
HourCap == 24
\* predicted = 50.0
Fallback == 50
\* np.sum(X, axis=1) * 0.1 + 50 : the intercept
DummyIntercept == 50
\* status_code=500
ServerError == 500
\* the status of a returned dict
StatusOk == 200
\* fixed point of a reading: tenths
InScale == 10
\* fixed point of a prediction: hundredths
OutScale == 100
\* dt.date.today(), as the ordinal of the day of the request
Today == 739000

\* ------------------------------------------------------------ JSON values
\* A JSON scalar as _safe_num sees it: null, a number v (tenths), a string
\* that float() parses to v, or a string float() rejects.
Null == [t |-> "null", v |-> 0]

Num(x) == [t |-> "num", v |-> x]

NumStr(x) == [t |-> "str", v |-> x]

Junk == [t |-> "junk", v |-> 0]

\* An exception raised while evaluating an expression.
Raise(kind) == [t |-> kind, v |-> 0]

IsRaise(e) == e.t \in {"KeyError", "IndexError", "TypeError"}

\* A JSON member of aq["hourly"]: absent, null, or a list of scalars.
AbsentMember == [k |-> "absent", a |-> <<>>]

NullMember == [k |-> "null", a |-> <<>>]

ListMember(s) == [k |-> "list", a |-> s]

\* _safe_num(x, default=0.0)
safe_num(x) ==
    IF x.t = "null" THEN 0
    ELSE IF x.t \in {"num", "str"} THEN x.v
    ELSE 0

\* The feature fields a pollutant member feeds, in the order of the X row.
Fields == <<"PM25", "PM10", "NO2", "NO", "NH3", "CO", "SO2", "O3">>

Sourced == {"PM25", "PM10", "NO2", "NH3", "CO", "SO2", "O3"}

\* The upstream key each sourced field is read from.
KeyOf(f) ==
    CASE f = "PM25" -> "pm2_5"
      [] f = "PM10" -> "pm10"
      [] f = "NO2" -> "nitrogen_dioxide"
      [] f = "NH3" -> "ammonia"
      [] f = "CO" -> "carbon_monoxide"
      [] f = "SO2" -> "sulphur_dioxide"
      [] f = "O3" -> "ozone"

Keys == {KeyOf(f) : f \in Sourced}

\* vals[i] of a Python list: a negative i counts from the end.
PyIndex(a, i) ==
    IF 0 <= i /\ i < Len(a) THEN a[i + 1]
    ELSE IF i < 0 /\ -i <= Len(a) THEN a[Len(a) + i + 1]
    ELSE Raise("IndexError")

\* aq["hourly"][key][0]
Subscript0(m) ==
    IF m.k = "absent" THEN Raise("KeyError")
    ELSE IF m.k = "null" THEN Raise("TypeError")
    ELSE PyIndex(m.a, 0)

\* hours.get(key, [])
Get(m) == IF m.k = "absent" THEN ListMember(<<>>) ELSE m

\* vals[i] if i < len(vals) else None
Guarded(m, i) ==
    IF m.k = "null" THEN Raise("TypeError")
    ELSE IF i < Len(m.a) THEN PyIndex(m.a, i)
    ELSE Null

\* The first exception among the field expressions, in evaluation order.
FirstRaise(raw) ==
    LET bad == {j \in 1..Len(Fields) : Fields[j] \in Sourced /\ IsRaise(raw[Fields[j]])}
    IN  IF bad = {} THEN "none"
        ELSE raw[Fields[CHOOSE j \in bad : \A j2 \in bad : j <= j2]].t

\* AQIFeatures(PM25=_safe_num(..), .., NO=0.0, ..) over the raw field values.
AQIFeatures(raw) ==
    [f \in {Fields[j] : j \in 1..Len(Fields)} |->
        IF f = "NO" THEN 0 ELSE safe_num(raw[f])]

\* The current reading: every field subscripts index 0 of its member.
CurrentRaw(hourly) ==
    [f \in Sourced |-> Subscript0(hourly[KeyOf(f)])]

\* The feature expressions of both loops at index i.
LoopRaw(hourly, i) ==
    [f \in Sourced |-> Guarded(Get(hourly[KeyOf(f)]), i)]

\* X = [[PM25, PM10, NO2, NO, NH3, CO, SO2, O3]]
Row(features) == [j \in 1..Len(Fields) |-> features[Fields[j]]]

RECURSIVE SumSeq(_)
SumSeq(s) == IF s = <<>> THEN 0 ELSE Head(s) + SumSeq(Tail(s))

\* DummyModel.predict: np.sum(X, axis=1) * 0.1 + 50, in hundredths.
DummyPredict(X) ==
    (SumSeq(X) * OutScale) \div (InScale * 10) + DummyIntercept * OutScale

\* The unpickled regressor is opaque: a deterministic stand-in whose output
\* can be negative (3 * sum - 20.00, in hundredths).
ArtifactPredict(X) == 3 * SumSeq(X) - 20 * OutScale

\* float(model.predict(X)[0])
ModelPredict(model, X) ==
    IF model.kind = "dummy" THEN DummyPredict(X) ELSE ArtifactPredict(X)

Max(a, b) == IF a >= b THEN a ELSE b

Min(a, b) == IF a <= b THEN a ELSE b

\* The day offset used as the index, without the cap at the last sample.
SourceIndexNoCap(d, n) == d

\* i = min(d, len(timestamps) - 1)
SourceIndex(d, n) == Min(d, n - 1)

\* No clamp: the prediction as it is.
ClampNone(predicted) == predicted

\* max(0.0, predicted)
Clamp(predicted) == Max(0, predicted)

\* A try/except that yields 0.0 instead of the fallback constant.
TryPredictZero(ok, value) == IF ok THEN value ELSE 0

\* try: predicted = predict_3h(features)  except Exception: predicted = 50.0
TryPredict(ok, value) == IF ok THEN value ELSE Fallback * OutScale

\* (today + dt.timedelta(days=d + 1)), as an ordinal
DateOf(d) == Today + (d + 1)

\* ------------------------------------------------------------------ inputs
\* The `time` member: n labelled hours.  A JSON object has a len() too, but
\* cannot be sliced; it is held as the list of its keys under k = "object".
Timestamps(n) == [j \in 1..n |-> 1000 + (j - 1)]

TimeLens == (0..MaxTime) \cup (HourCap..(HourCap + MaxOver))

TimeMembers ==
    {ListMember(Timestamps(n)) : n \in TimeLens}
    \cup {AbsentMember, NullMember}
    \cup {[k |-> "object", a |-> Timestamps(n)] : n \in 0..1}

\* Section 8 scenario 7 of the spec, in tenths.
NominalA(key) ==
    CASE key = "pm2_5" -> <<Num(100), Num(200)>>
      [] key = "pm10" -> <<Num(50), Num(150)>>
      [] key = "nitrogen_dioxide" -> <<Num(10), Num(20)>>
      [] key = "carbon_monoxide" -> <<Num(1000), Num(2000)>>
      [] key = "sulphur_dioxide" -> <<Num(5), Num(15)>>
      [] key = "ozone" -> <<Num(300), Num(400)>>
      [] key = "ammonia" -> <<Num(1), Num(2)>>

Nominal(key) == ListMember(NominalA(key))

Scalars == {Null, Num(-9000), Junk}

RECURSIVE SeqsOf(_, _)
SeqsOf(S, n) ==
    IF n = 0 THEN {<<>>}
    ELSE LET shorter == SeqsOf(S, n - 1)
         IN  shorter \cup {Append(s, x) : s \in {q \in shorter : Len(q) = n - 1}, x \in S}

\* What one pollutant member can be when it deviates from the scenario.
OddMembers ==
    {AbsentMember, NullMember} \cup {ListMember(s) : s \in SeqsOf(Scalars, MaxLen)}

\* aq["hourly"]: the scenario's arrays, with member `key` replaced by m.
Hourly(tm, key, m) ==
    [x \in Keys \cup {"time"} |->
        IF x = "time" THEN tm ELSE IF x = key THEN m ELSE Nominal(x)]

WxKeys == {"temperature_2m", "relative_humidity_2m", "pressure_msl", "wind_speed_10m"}

WxFull == [has_current |-> TRUE, current |-> [x \in WxKeys |-> Num(215)]]

WxNulls == [has_current |-> TRUE, current |-> [x \in WxKeys |-> Null]]

WxBare == [has_current |-> FALSE, current |-> [x \in WxKeys |-> Null]]

AqDoc(h) == [has_hourly |-> TRUE, hourly |-> h]

AqBare == [has_hourly |-> FALSE, hourly |-> Hourly(AbsentMember, "pm10", AbsentMember)]

Request(fetch, aq, wx, budget) ==
    [fetch |-> fetch, aq |-> aq, wx |-> wx, budget |-> budget]

\* The requests a behaviour starts from: the upstream answers and the number
\* of model.predict calls that may raise.  Shapes vary with a reliable
\* predictor; the predictor fails on the scenario's arrays.
ShapeRequests ==
    {Request("ok", AqDoc(Hourly(tm, key, m)), WxFull, 0) :
        tm \in TimeMembers, key \in Keys, m \in OddMembers}

FailRequests ==
    {Request("ok", AqDoc(Hourly(tm, "pm10", Nominal("pm10"))), WxFull, b) :
        tm \in TimeMembers, b \in 0..MaxFails}

EdgeRequests ==
    {Request(f, AqDoc(Hourly(ListMember(Timestamps(1)), "pm10", Nominal("pm10"))), w, 0) :
        f \in {"ok", "aq_error", "wx_error"}, w \in {WxNulls, WxBare}}
    \cup {Request("ok", AqBare, WxFull, 0)}
    \cup {Request("ok", AqDoc(Hourly(ListMember(Timestamps(1)), "ozone",
                                     ListMember(<<NumStr(70)>>))), WxFull, 0)}

Requests == ShapeRequests \cup FailRequests \cup EdgeRequests

\* ------------------------------------------------------------------- state
None == [id |-> 0, kind |-> "none"]

Threads == 1..MaxThreads

VARIABLES
    req,            \* the request's upstream answers and failure budget
    pc,             \* the handler's position
    fails,          \* model.predict calls that may still raise
    comps,          \* current_components
    weather,
    aqi3,           \* predicted_aqi_3h
    forecast30,     \* forecast_30d
    hourly_aqi,
    d,              \* the running loop index (d of range(30), i of enumerate)
    log30,          \* per forecast30 point: the index read and whether predict returned
    logH,           \* the same for hourly_aqi
    exc30,          \* the exception the 30-day block caught, or "none"
    excH,           \* the exception the hourly block caught, or "none"
    response,       \* what the handler returned or raised
    model_cache,    \* _model_cache
    loadAttempts,   \* calls of joblib.load
    warnings,       \* [WARN] lines printed
    assigns,        \* assignments to _model_cache
    returned,       \* the instances load_model has returned
    tpc,            \* per thread: its position inside load_model
    tobj,           \* per thread: the object joblib.load gave it
    tcalls          \* per thread: the calls of load_model it has made

vars ==
    <<req, pc, fails, comps, weather, aqi3, forecast30, hourly_aqi, d, log30, logH,
      exc30, excH, response, model_cache, loadAttempts, warnings, assigns, returned,
      tpc, tobj, tcalls>>

handlerVars ==
    <<req, pc, fails, comps, weather, aqi3, forecast30, hourly_aqi, d, log30, logH,
      exc30, excH, response>>

cacheVars == <<model_cache, loadAttempts, warnings, assigns, returned>>

threadVars == <<tpc, tobj, tcalls>>

NoFeatures == [f \in {Fields[j] : j \in 1..Len(Fields)} |-> 0]

NoWeather == [x \in {"temp_c", "humidity", "pressure", "wind_speed"} |-> 0]

NoResponse == [status |-> 0, detail |-> "none"]

InitCache ==
    /\ model_cache = None
    /\ loadAttempts = 0
    /\ warnings = 0
    /\ assigns = 0
    /\ returned = {}

InitHandler(r, at) ==
    /\ req = r
    /\ pc = at
    /\ fails = r.budget
    /\ comps = NoFeatures
    /\ weather = NoWeather
    /\ aqi3 = 0
    /\ forecast30 = <<>>
    /\ hourly_aqi = <<>>
    /\ d = 0
    /\ log30 = <<>>
    /\ logH = <<>>
    /\ exc30 = "none"
    /\ excH = "none"
    /\ response = NoResponse

InitThreads(at) ==
    /\ tpc = [t \in Threads |-> at]
    /\ tobj = [t \in Threads |-> None]
    /\ tcalls = [t \in Threads |-> 0]

Init ==
    /\ \E r \in Requests : InitHandler(r, "fetch")
    /\ InitCache
    /\ InitThreads("off")

\* -------------------------------------------------------------- load_model
\* load_model without the `if _model_cache is not None` return: loads anew.
LoadModelNoCheck(c, outcome) ==
    LET inst == [id |-> c.attempts + 1,
                 kind |-> IF outcome = "ok" THEN "artifact" ELSE "dummy"]
    IN  [cache |-> inst,
         attempts |-> c.attempts + 1,
         warnings |-> c.warnings + (IF outcome = "ok" THEN 0 ELSE 1),
         assigns |-> c.assigns + 1,
         ret |-> inst]

\* load_model() run without interruption: the cache, the counters and the
\* instance returned, given what joblib.load does ("ok" or "err").
LoadModel(c, outcome) ==
    IF c.cache # None
    THEN [c EXCEPT !.ret = c.cache]
    ELSE LET inst == [id |-> c.attempts + 1,
                      kind |-> IF outcome = "ok" THEN "artifact" ELSE "dummy"]
         IN  [cache |-> inst,
              attempts |-> c.attempts + 1,
              warnings |-> c.warnings + (IF outcome = "ok" THEN 0 ELSE 1),
              assigns |-> c.assigns + 1,
              ret |-> inst]

\* What joblib.load can do on this call: it is only reached with no cache.
LoadOutcomes == IF model_cache = None THEN {"ok", "err"} ELSE {"skip"}

CacheState ==
    [cache |-> model_cache, attempts |-> loadAttempts, warnings |-> warnings,
     assigns |-> assigns, ret |-> None]

SetCache(c) ==
    /\ model_cache' = c.cache
    /\ loadAttempts' = c.attempts
    /\ warnings' = c.warnings
    /\ assigns' = c.assigns
    /\ returned' = returned \cup {c.ret}

\* ----------------------------------------------------------------- handler
\* except Exception as e: raise HTTPException(status_code=500, detail=str(e))
Raise500(kind) ==
    /\ pc' = "done"
    /\ response' = [status |-> ServerError, detail |-> kind]

Hours == IF req.aq.has_hourly THEN req.aq.hourly
         ELSE [x \in Keys \cup {"time"} |-> AbsentMember]

\* timestamps = hours.get("time", [])
TimeMember == Get(Hours["time"])

\* aq = fetch_air_quality(lat, lon); wx = fetch_weather(lat, lon)
Fetch ==
    /\ pc = "fetch"
    /\ IF req.fetch = "ok"
       THEN pc' = "comps" /\ UNCHANGED response
       ELSE Raise500(req.fetch)
    /\ UNCHANGED <<req, fails, comps, weather, aqi3, forecast30, hourly_aqi, d, log30,
                   logH, exc30, excH>>
    /\ UNCHANGED <<cacheVars, threadVars>>

\* comps = AQIFeatures(PM25=_safe_num(aq["hourly"]["pm2_5"][0]), ...)
Comps ==
    /\ pc = "comps"
    /\ LET raw == CurrentRaw(req.aq.hourly)
           exc == IF req.aq.has_hourly THEN FirstRaise(raw) ELSE "KeyError"
       IN  IF exc = "none"
           THEN comps' = AQIFeatures(raw) /\ pc' = "weather" /\ UNCHANGED response
           ELSE Raise500(exc) /\ UNCHANGED comps
    /\ UNCHANGED <<req, fails, weather, aqi3, forecast30, hourly_aqi, d, log30, logH,
                   exc30, excH>>
    /\ UNCHANGED <<cacheVars, threadVars>>

\* weather = {"temp_c": _safe_num(wx["current"]["temperature_2m"]), ...}
Weather ==
    /\ pc = "weather"
    /\ IF req.wx.has_current
       THEN /\ weather' = [temp_c |-> safe_num(req.wx.current["temperature_2m"]),
                           humidity |-> safe_num(req.wx.current["relative_humidity_2m"]),
                           pressure |-> safe_num(req.wx.current["pressure_msl"]),
                           wind_speed |-> safe_num(req.wx.current["wind_speed_10m"])]
            /\ pc' = "predict"
            /\ UNCHANGED response
       ELSE Raise500("KeyError") /\ UNCHANGED weather
    /\ UNCHANGED <<req, fails, comps, aqi3, forecast30, hourly_aqi, d, log30, logH,
                   exc30, excH>>
    /\ UNCHANGED <<cacheVars, threadVars>>

\* The current prediction wrapped in the loops' try/except: 50.0 on failure.
PredictCurrentIsolated ==
    /\ pc = "predict"
    /\ \E outcome \in LoadOutcomes, ok \in BOOLEAN :
        LET c == LoadModel(CacheState, outcome)
        IN  /\ SetCache(c)
            /\ ok \/ fails > 0
            /\ aqi3' = TryPredict(ok, ModelPredict(c.ret, Row(comps)))
            /\ fails' = IF ok THEN fails ELSE fails - 1
            /\ pc' = "begin30"
            /\ UNCHANGED response
    /\ UNCHANGED <<req, comps, weather, forecast30, hourly_aqi, d, log30, logH, exc30,
                   excH>>
    /\ UNCHANGED threadVars

\* aqi3 = predict_3h(comps): not inside any inner try.
PredictCurrent ==
    /\ pc = "predict"
    /\ \E outcome \in LoadOutcomes, ok \in BOOLEAN :
        LET c == LoadModel(CacheState, outcome)
        IN  /\ SetCache(c)
            /\ ok \/ fails > 0
            /\ IF ok
               THEN /\ aqi3' = ModelPredict(c.ret, Row(comps))
                    /\ pc' = "begin30"
                    /\ UNCHANGED <<response, fails>>
               ELSE /\ Raise500("PredictError")
                    /\ fails' = fails - 1
                    /\ UNCHANGED aqi3
    /\ UNCHANGED <<req, comps, weather, forecast30, hourly_aqi, d, log30, logH, exc30,
                   excH>>
    /\ UNCHANGED threadVars

\* forecast30 = []; try: hours = aq.get("hourly", {}) ... today = dt.date.today()
Begin30 ==
    /\ pc = "begin30"
    /\ forecast30' = <<>>
    /\ d' = 0
    /\ pc' = "loop30"
    /\ UNCHANGED <<req, fails, comps, weather, aqi3, hourly_aqi, log30, logH, exc30,
                   excH, response>>
    /\ UNCHANGED <<cacheVars, threadVars>>

\* The exception one pass of a loop body raises before predict_3h, or "none":
\* len() of a null member, then the feature expressions.
BodyRaise(i) == FirstRaise(LoopRaw(Hours, i))

\* One pass of `for d in range(30)`: the index, the features, the guarded
\* prediction, the append; or the jump to the block's except clause.
Day30 ==
    /\ pc = "loop30"
    /\ IF TimeMember.k = "null"
       THEN /\ exc30' = "TypeError"
            /\ pc' = "beginHourly"
            /\ UNCHANGED <<forecast30, log30, d, fails, cacheVars>>
       ELSE LET i == SourceIndex(d, Len(TimeMember.a))
            IN  IF BodyRaise(i) # "none"
                THEN /\ exc30' = BodyRaise(i)
                     /\ pc' = "beginHourly"
                     /\ UNCHANGED <<forecast30, log30, d, fails, cacheVars>>
                ELSE \E outcome \in LoadOutcomes, ok \in BOOLEAN :
                        LET c == LoadModel(CacheState, outcome)
                            X == Row(AQIFeatures(LoopRaw(Hours, i)))
                            predicted == TryPredict(ok, ModelPredict(c.ret, X))
                        IN  /\ SetCache(c)
                            /\ ok \/ fails > 0
                            /\ fails' = IF ok THEN fails ELSE fails - 1
                            /\ forecast30' = Append(forecast30,
                                   [date |-> DateOf(d), predicted_aqi |-> Clamp(predicted)])
                            /\ log30' = Append(log30, [i |-> i, ok |-> ok])
                            /\ d' = d + 1
                            /\ pc' = IF d + 1 < Days THEN "loop30" ELSE "beginHourly"
                            /\ UNCHANGED exc30
    /\ UNCHANGED <<req, comps, weather, aqi3, hourly_aqi, logH, excH, response>>
    /\ UNCHANGED threadVars

\* The whole array, without the [:24] slice.
HourSliceAll(tm) == tm.a

\* timestamps[:24]
HourSlice(tm) == SubSeq(tm.a, 1, Min(HourCap, Len(tm.a)))

\* The hourly block without its own try: the exception reaches the outer except.
BeginHourlyNoTry ==
    /\ pc = "beginHourly"
    /\ hourly_aqi' = <<>>
    /\ d' = 0
    /\ IF TimeMember.k \in {"null", "object"}
       THEN excH' = "TypeError" /\ Raise500("TypeError")
       ELSE /\ pc' = IF Len(HourSlice(TimeMember)) > 0 THEN "loopHourly" ELSE "respond"
            /\ UNCHANGED <<excH, response>>
    /\ UNCHANGED <<req, fails, comps, weather, aqi3, forecast30, log30, logH, exc30>>
    /\ UNCHANGED <<cacheVars, threadVars>>

\* hourly_aqi = []; try: ... enumerate(timestamps[:24]): the slice is taken
\* once; null and a JSON object cannot be sliced.
BeginHourly ==
    /\ pc = "beginHourly"
    /\ hourly_aqi' = <<>>
    /\ d' = 0
    /\ IF TimeMember.k \in {"null", "object"}
       THEN excH' = "TypeError" /\ pc' = "respond"
       ELSE /\ pc' = IF Len(HourSlice(TimeMember)) > 0 THEN "loopHourly" ELSE "respond"
            /\ UNCHANGED excH
    /\ UNCHANGED <<req, fails, comps, weather, aqi3, forecast30, log30, logH, exc30,
                   response>>
    /\ UNCHANGED <<cacheVars, threadVars>>

\* One pass of `for i, ts in enumerate(timestamps[:24])`.
Hour ==
    /\ pc = "loopHourly"
    /\ IF BodyRaise(d) # "none"
       THEN /\ excH' = BodyRaise(d)
            /\ pc' = "respond"
            /\ UNCHANGED <<hourly_aqi, logH, d, fails, cacheVars>>
       ELSE \E outcome \in LoadOutcomes, ok \in BOOLEAN :
               LET c == LoadModel(CacheState, outcome)
                   X == Row(AQIFeatures(LoopRaw(Hours, d)))
                   predicted == TryPredict(ok, ModelPredict(c.ret, X))
               IN  /\ SetCache(c)
                   /\ ok \/ fails > 0
                   /\ fails' = IF ok THEN fails ELSE fails - 1
                   /\ hourly_aqi' = Append(hourly_aqi,
                          [time |-> HourSlice(TimeMember)[d + 1], predicted_aqi |-> predicted])
                   /\ logH' = Append(logH, [i |-> d, ok |-> ok])
                   /\ d' = d + 1
                   /\ pc' = IF d + 1 < Len(HourSlice(TimeMember)) THEN "loopHourly"
                            ELSE "respond"
                   /\ UNCHANGED excH
    /\ UNCHANGED <<req, comps, weather, aqi3, forecast30, log30, exc30, response>>
    /\ UNCHANGED threadVars

\* return {"city": ..., "weather": weather, "current_components": ..., ...}
Respond ==
    /\ pc = "respond"
    /\ response' = [status |-> StatusOk,
                    weather |-> weather,
                    current_components |-> comps,
                    predicted_aqi_3h |-> aqi3,
                    forecast_30d |-> forecast30,
                    hourly_aqi |-> hourly_aqi]
    /\ pc' = "done"
    /\ UNCHANGED <<req, fails, comps, weather, aqi3, forecast30, hourly_aqi, d, log30,
                   logH, exc30, excH>>
    /\ UNCHANGED <<cacheVars, threadVars>>

Next ==
    \/ Fetch
    \/ Comps
    \/ Weather
    \/ PredictCurrent
    \/ Begin30
    \/ Day30
    \/ BeginHourly
    \/ Hour
    \/ Respond

Spec == Init /\ [][Next]_vars

\* ------------------------------------------------- load_model, interleaved
\* The handler is a plain `def`, which the server runs on pool threads, so
\* calls of load_model interleave between its statements; joblib.load reads
\* a file and releases the interpreter lock.

\* A request thread reaches predict_3h: model = load_model()
T_Call(t) ==
    /\ tpc[t] = "idle"
    /\ tcalls[t] < MaxCalls
    /\ tpc' = [tpc EXCEPT ![t] = "check"]
    /\ tcalls' = [tcalls EXCEPT ![t] = @ + 1]
    /\ UNCHANGED <<tobj, cacheVars, handlerVars>>

\* if _model_cache is not None: return _model_cache
T_Check(t) ==
    /\ tpc[t] = "check"
    /\ IF model_cache # None
       THEN /\ returned' = returned \cup {model_cache}
            /\ tpc' = [tpc EXCEPT ![t] = "idle"]
       ELSE /\ tpc' = [tpc EXCEPT ![t] = "load"]
            /\ UNCHANGED returned
    /\ UNCHANGED <<tobj, tcalls, model_cache, loadAttempts, warnings, assigns, handlerVars>>

\* joblib.load(model_path): returns a fresh object or raises
T_Load(t) ==
    /\ tpc[t] = "load"
    /\ loadAttempts' = loadAttempts + 1
    /\ \E outcome \in {"ok", "err"} :
        IF outcome = "ok"
        THEN /\ tobj' = [tobj EXCEPT ![t] = [id |-> loadAttempts + 1, kind |-> "artifact"]]
             /\ tpc' = [tpc EXCEPT ![t] = "store"]
        ELSE /\ tobj' = [tobj EXCEPT ![t] = [id |-> loadAttempts + 1, kind |-> "dummy"]]
             /\ tpc' = [tpc EXCEPT ![t] = "fallback"]
    /\ UNCHANGED <<tcalls, model_cache, warnings, assigns, returned, handlerVars>>

\* _model_cache = <the loaded object>
T_Store(t) ==
    /\ tpc[t] = "store"
    /\ model_cache' = tobj[t]
    /\ assigns' = assigns + 1
    /\ tpc' = [tpc EXCEPT ![t] = "return"]
    /\ UNCHANGED <<tobj, tcalls, loadAttempts, warnings, returned, handlerVars>>

\* except Exception: class DummyModel ...; _model_cache = DummyModel()
T_Fallback(t) ==
    /\ tpc[t] = "fallback"
    /\ model_cache' = tobj[t]
    /\ assigns' = assigns + 1
    /\ tpc' = [tpc EXCEPT ![t] = "warn"]
    /\ UNCHANGED <<tobj, tcalls, loadAttempts, warnings, returned, handlerVars>>

\* print(f"[WARN] Could not load model ...")
T_Warn(t) ==
    /\ tpc[t] = "warn"
    /\ warnings' = warnings + 1
    /\ tpc' = [tpc EXCEPT ![t] = "return"]
    /\ UNCHANGED <<tobj, tcalls, model_cache, loadAttempts, assigns, returned, handlerVars>>

\* return _model_cache: the global is read again
T_Return(t) ==
    /\ tpc[t] = "return"
    /\ returned' = returned \cup {model_cache}
    /\ tpc' = [tpc EXCEPT ![t] = "idle"]
    /\ UNCHANGED <<tobj, tcalls, model_cache, loadAttempts, warnings, assigns, handlerVars>>

InitLoad ==
    /\ InitHandler(Request("ok", AqBare, WxBare, 0), "off")
    /\ InitCache
    /\ InitThreads("idle")

NextLoad ==
    \E t \in Threads :
        \/ T_Call(t)
        \/ T_Check(t)
        \/ T_Load(t)
        \/ T_Store(t)
        \/ T_Fallback(t)
        \/ T_Warn(t)
        \/ T_Return(t)

SpecLoad == InitLoad /\ [][NextLoad]_vars

\* ------------------------------------------------------------------ claims
Done200 == pc = "done" /\ response.status = StatusOk

Done500 == pc = "done" /\ response.status = ServerError

\* The handler is past the 30-day block / past the hourly block.
After30 == pc \in {"beginHourly", "loopHourly", "respond"} \/ Done200

AfterHourly == pc = "respond" \/ Done200

TimeIsList == Hours["time"].k = "list"

TimeLen == Len(Hours["time"].a)

\* The scenario of the spec's section 8: the nominal arrays under n hours.
IsScenario(n) ==
    /\ req.aq.has_hourly
    /\ req.aq.hourly = Hourly(ListMember(Timestamps(n)), "pm10", Nominal("pm10"))

\* What the cached model gives for the sample at index i.
ValueAt(i) == ModelPredict(model_cache, Row(AQIFeatures(LoopRaw(Hours, i))))

FailedIn(log) == Cardinality({k \in 1..Len(log) : ~log[k].ok})

\* C1: under concurrent first calls of load_model at most one joblib.load is
\* attempted, at most one warning is printed and the cache is assigned once.
C1_SingleLoad == loadAttempts <= 1 /\ warnings <= 1 /\ assigns <= 1

\* C2: with an empty `time` array a 200 response carries an empty 30-day
\* forecast and an empty hourly forecast, whatever the pollutant arrays hold.
C2_EmptyTimeEmptyForecasts ==
    (Done200 /\ TimeIsList /\ TimeLen = 0)
        => (response.forecast_30d = <<>> /\ response.hourly_aqi = <<>>)

\* C3: with a non-empty `time` array the finished 30-day forecast has exactly
\* 30 points, point k dated today + k (consecutive days from tomorrow), and
\* every predicted_aqi is >= 0, whatever the arrays and the predictor did.
C3_ThirtyPoints ==
    (After30 /\ TimeIsList /\ TimeLen >= 1)
        => /\ exc30 = "none"
           /\ Len(forecast30) = 30
           /\ forecast30[30].predicted_aqi >= 0
           /\ Done200 =>
                /\ Len(response.forecast_30d) = 30
                /\ \A k \in 1..30 :
                     /\ response.forecast_30d[k].date = Today + k
                     /\ response.forecast_30d[k].predicted_aqi >= 0

C3_Witness ==
    /\ Done200 /\ TimeIsList /\ TimeLen >= 1
    /\ \E k \in 1..Len(log30) : ~log30[k].ok
    /\ \E k \in 1..Len(log30) :
        log30[k].ok /\ ValueAt(log30[k].i) < 0 /\ response.forecast_30d[k].predicted_aqi = 0

\* C4: feature assembly never raises: once the upstream documents are
\* fetched and the weather block is well formed, no KeyError, IndexError or
\* TypeError ends the request, at the current reading or in either loop.
C4_AssemblyNeverRaises ==
    (req.fetch = "ok" /\ req.wx.has_current)
        => /\ ~(Done500 /\ response.detail \in {"KeyError", "IndexError", "TypeError"})
           /\ (TimeIsList => exc30 = "none" /\ excH = "none")

\* C5: a failed prediction puts exactly 50.0 at its own point and nowhere
\* else; the points whose prediction returned carry the value of their own
\* sample; the loops run to their full length and keep the order.
C5_FailureIsolation ==
    /\ Len(log30) = Len(forecast30)
    /\ Len(logH) = Len(hourly_aqi)
    /\ (After30 /\ exc30 = "none") => Len(forecast30) = Days
    /\ (AfterHourly /\ excH = "none") => Len(hourly_aqi) = Min(HourCap, TimeLen)
    /\ Done200 =>
        /\ \A k \in 1..Len(response.forecast_30d) :
            /\ response.forecast_30d[k].date = Today + k
            /\ response.forecast_30d[k].predicted_aqi =
                  IF log30[k].ok THEN Max(0, ValueAt(log30[k].i)) ELSE 5000
        /\ \A k \in 1..Len(response.hourly_aqi) :
            /\ response.hourly_aqi[k].time = Hours["time"].a[k]
            /\ response.hourly_aqi[k].predicted_aqi =
                  IF logH[k].ok THEN ValueAt(k - 1) ELSE 5000

C5_Witness ==
    /\ Done200
    /\ Len(forecast30) = Days
    /\ ~log30[3].ok /\ forecast30[3].predicted_aqi = 5000
    /\ log30[2].ok /\ log30[4].ok
    /\ forecast30[4].predicted_aqi # 5000

\* C6: with n >= 1 hours, day offset d reads the sample at index min(d, n-1);
\* the days from offset n-1 on share the last sample and, where the
\* prediction returned, share one value.  Spec scenario: n = 2 under the
\* fallback predictor gives 64.66 for day 1 and 77.87 for days 2..30.
C6_SourceIndex ==
    (Done200 /\ TimeIsList /\ TimeLen >= 1)
        => /\ \A k \in 1..Len(log30) :
                log30[k].i = (IF k - 1 < TimeLen - 1 THEN k - 1 ELSE TimeLen - 1)
           /\ \A k1, k2 \in 1..Len(response.forecast_30d) :
                (k1 >= TimeLen /\ k2 >= TimeLen /\ log30[k1].ok /\ log30[k2].ok)
                    => response.forecast_30d[k1].predicted_aqi
                          = response.forecast_30d[k2].predicted_aqi
           /\ (IsScenario(2) /\ model_cache.kind = "dummy")
                => \A k \in 1..Len(response.forecast_30d) :
                      log30[k].ok =>
                          response.forecast_30d[k].predicted_aqi
                              = (IF k = 1 THEN 6466 ELSE 7787)

C6_Witness ==
    /\ Done200
    /\ IsScenario(2) /\ model_cache.kind = "dummy"
    /\ response.forecast_30d[1].predicted_aqi = 6466
    /\ \A k \in 2..Days : response.forecast_30d[k].predicted_aqi = 7787

\* C7: the hourly forecast has at most min(24, len(time)) points; point k
\* carries the k-th upstream timestamp and either the predictor's output for
\* the sample at index k (not clamped) or exactly 50.0 where it failed.
C7_HourlyToday ==
    TimeIsList
        => /\ Len(hourly_aqi) <= 24
           /\ Len(hourly_aqi) <= TimeLen
           /\ Done200 =>
                /\ Len(response.hourly_aqi) <= 24
                /\ Len(response.hourly_aqi) <= TimeLen
                /\ \A k \in 1..Len(response.hourly_aqi) :
                     /\ response.hourly_aqi[k].time = Hours["time"].a[k]
                     /\ logH[k].i = k - 1
                     /\ response.hourly_aqi[k].predicted_aqi =
                           IF logH[k].ok THEN ValueAt(k - 1) ELSE 5000

C7_Witness ==
    /\ Done200
    /\ TimeIsList /\ TimeLen > HourCap
    /\ Len(response.hourly_aqi) = HourCap
    /\ \E k \in 1..HourCap : ~logH[k].ok /\ response.hourly_aqi[k].predicted_aqi = 5000
    /\ \E k \in 1..HourCap : logH[k].ok /\ response.hourly_aqi[k].predicted_aqi < 0

\* C8: in a sequential series of load_model calls only the first attempts the
\* load; every call returns the one cached instance, and the cache, once
\* set, is not assigned again.
C8_LoadOnce ==
    /\ loadAttempts <= 1
    /\ assigns <= 1
    /\ warnings <= 1
    /\ returned \subseteq {model_cache}
    /\ (assigns = 1) => (model_cache # None /\ model_cache.id = 1)
    /\ (model_cache # None) => (assigns = 1 /\ loadAttempts = 1)

C8_Witness ==
    /\ Done200
    /\ Len(log30) = Days /\ Len(logH) >= 2
    /\ model_cache.kind = "dummy"
    /\ warnings = 1
    /\ returned = {model_cache}

\* C9: an exception caught while building one forecast leaves that section
\* empty in the response, leaves the other section as built, and the response
\* is still a 200 with the current prediction and the weather.
C9_BlockDegradesToEmpty ==
    /\ (exc30 # "none" \/ excH # "none") => pc # "done" \/ Done200
    /\ Done200 =>
        /\ exc30 # "none" => response.forecast_30d = <<>>
        /\ excH # "none" => response.hourly_aqi = <<>>
        /\ (excH # "none" /\ exc30 = "none") => Len(response.forecast_30d) = Days
        /\ (exc30 # "none" /\ excH = "none")
              => Len(response.hourly_aqi) = Min(HourCap, TimeLen)
        /\ response.predicted_aqi_3h = aqi3
        /\ response.weather = weather

C9_Witness ==
    /\ Done200
    /\ excH # "none" /\ exc30 = "none"
    /\ response.hourly_aqi = <<>>
    /\ Len(response.forecast_30d) = Days
    /\ response.weather.temp_c = 215

\* C10: a failure of the current-reading prediction ends the request as a
\* 500 before either loop has run; a 200 response exists only when that
\* prediction returned, and then holds both forecast fields.
C10_CurrentNotIsolated ==
    /\ (Done500 /\ response.detail = "PredictError")
          => /\ log30 = <<>> /\ logH = <<>>
             /\ forecast30 = <<>> /\ hourly_aqi = <<>>
             /\ DOMAIN response = {"status", "detail"}
    /\ (pc \in {"begin30", "loop30", "beginHourly", "loopHourly", "respond"} \/ Done200)
          => aqi3 = ModelPredict(model_cache, Row(comps))
    /\ Done200 =>
        /\ FailedIn(log30) + FailedIn(logH) = req.budget - fails
        /\ response.predicted_aqi_3h = ModelPredict(model_cache, Row(comps))
        /\ {"forecast_30d", "hourly_aqi"} \subseteq DOMAIN response

C10_Witness ==
    /\ Done500
    /\ response.detail = "PredictError"
    /\ model_cache # None
    /\ req.budget >= 1 /\ fails = req.budget - 1

====
